---- MODULE Spec2Model ----
(***************************************************************************)
(* Model of the acceleration-scheme selector of src/nfa/accelcompile.cpp:  *)
(* buildAccelAux, buildAccelDouble, buildAccelSingle and isCaselessDouble. *)
(* One behaviour is one invocation of buildAccelAux on one AccelInfo, with *)
(* assertions enabled (a failed assertion aborts the invocation).          *)
(***************************************************************************)
EXTENDS Integers, FiniteSets, Sequences, TLC

VARIABLES info, aux, pc, ret, abort, trace, calls, shufti

vars == <<info, aux, pc, ret, abort, trace, calls, shufti>>

(* ------------------------------ bounds --------------------------------- *)

\* the largest sampled offset; 255 and 256 straddle the 8-bit limit
MaxOffset == 256
\* double_stop1 ranges over the byte sets {1..n}, n <= MaxOuts1
MaxOuts1 == 3
\* double_stop2 ranges over pair sets of n pairs, n <= MaxOuts2
MaxOuts2 == 9
\* largest subset of PairUniverse enumerated as double_stop2
MaxSubset == 5

(* --------------------------- bytes and bits ---------------------------- *)

Byte == 0..255

RECURSIVE BitAnd(_, _)
BitAnd(x, y) ==
    IF x = 0 \/ y = 0 THEN 0
    ELSE (x % 2) * (y % 2) + 2 * BitAnd(x \div 2, y \div 2)

CASE_CLEAR == 223

\* CharReach::find_first(): the lowest member
find_first(S) == CHOOSE x \in S : \A y \in S : x <= y

\* flat_set<pair<u8,u8>>::begin(): the lexicographically least pair
begin(stop) ==
    CHOOSE p \in stop : \A q \in stop :
        p[1] < q[1] \/ (p[1] = q[1] /\ p[2] <= q[2])

mytoupper(c) == IF c \in 97..122 THEN c - 32 ELSE c

\* CharReach::isCaselessChar(): exactly two members, the upper and the
\* lower case of one letter
isCaselessChar(S) ==
    /\ Cardinality(S) = 2
    /\ LET first == find_first(S)
           second == find_first(S \ {first})
       IN first = mytoupper(second)

ACCEL_MAX_STOP_CHAR == 160

\* verify_u8(): the value when it fits in 8 bits, FATAL otherwise
FATAL == -1
verify_u8(val) == IF val > 255 THEN FATAL ELSE val

\* a store to the offset field of the descriptor
StoreOffset(v) == v

(* ---------------------------- the selectors ---------------------------- *)

\* outcome of a selector: the descriptor it leaves, the assertion that
\* failed ("" when none) and the values it assigned to accel_type, in order
Ret(a, w) == [aux |-> a, abort |-> "", writes |-> w]
Fail(a, what) == [aux |-> a, abort |-> what, writes |-> <<>>]

\* the table (shufti) builder declined
SHUFTI_FAIL == -1

\* buildAccelSingle without the store to truffle.offset
buildAccelSingle_noTruffleOffset(inf, a, shuftiRes) ==
    IF a.accel_type # "ACCEL_NONE" THEN Fail(a, "assert_single_entry")
    ELSE IF inf.single_stops = Byte THEN Ret(a, <<>>)
    ELSE
        LET outs == Cardinality(inf.single_stops)
            offset == inf.single_offset
        IN  IF ~(outs # 0 /\ outs < 256) THEN Fail(a, "assert_single_outs")
            ELSE IF outs = 1 THEN
                Ret([a EXCEPT !.accel_type = "ACCEL_VERM",
                              !.offset = StoreOffset(offset),
                              !.c1 = find_first(inf.single_stops)],
                    <<"ACCEL_VERM">>)
            ELSE IF outs = 2 /\ isCaselessChar(inf.single_stops) THEN
                Ret([a EXCEPT !.accel_type = "ACCEL_VERM_NOCASE",
                              !.offset = StoreOffset(offset),
                              !.c1 = BitAnd(find_first(inf.single_stops),
                                            CASE_CLEAR)],
                    <<"ACCEL_VERM_NOCASE">>)
            ELSE IF SHUFTI_FAIL # shuftiRes THEN
                Ret([a EXCEPT !.accel_type = "ACCEL_SHUFTI",
                              !.offset = StoreOffset(offset),
                              !.masks = "shufti"],
                    <<"ACCEL_SHUFTI">>)
            ELSE IF outs <= ACCEL_MAX_STOP_CHAR THEN
                Ret([a EXCEPT !.accel_type = "ACCEL_TRUFFLE",
                              !.masks = "truffle"],
                    <<"ACCEL_TRUFFLE">>)
            ELSE Ret(a, <<>>)

\* buildAccelSingle without the outs == 1 case
buildAccelSingle_noExact(inf, a, shuftiRes) ==
    IF a.accel_type # "ACCEL_NONE" THEN Fail(a, "assert_single_entry")
    ELSE IF inf.single_stops = Byte THEN Ret(a, <<>>)
    ELSE
        LET outs == Cardinality(inf.single_stops)
            offset == inf.single_offset
        IN  IF ~(outs # 0 /\ outs < 256) THEN Fail(a, "assert_single_outs")
            ELSE IF outs = 1 /\ FALSE THEN
                Ret([a EXCEPT !.accel_type = "ACCEL_VERM",
                              !.offset = StoreOffset(offset),
                              !.c1 = find_first(inf.single_stops)],
                    <<"ACCEL_VERM">>)
            ELSE IF outs = 2 /\ isCaselessChar(inf.single_stops) THEN
                Ret([a EXCEPT !.accel_type = "ACCEL_VERM_NOCASE",
                              !.offset = StoreOffset(offset),
                              !.c1 = BitAnd(find_first(inf.single_stops),
                                            CASE_CLEAR)],
                    <<"ACCEL_VERM_NOCASE">>)
            ELSE IF SHUFTI_FAIL # shuftiRes THEN
                Ret([a EXCEPT !.accel_type = "ACCEL_SHUFTI",
                              !.offset = StoreOffset(offset),
                              !.masks = "shufti"],
                    <<"ACCEL_SHUFTI">>)
            ELSE IF outs <= ACCEL_MAX_STOP_CHAR THEN
                Ret([a EXCEPT !.accel_type = "ACCEL_TRUFFLE",
                              !.offset = StoreOffset(offset),
                              !.masks = "truffle"],
                    <<"ACCEL_TRUFFLE">>)
            ELSE Ret(a, <<>>)

\* buildAccelSingle with outs < ACCEL_MAX_STOP_CHAR
buildAccelSingle_strictMax(inf, a, shuftiRes) ==
    IF a.accel_type # "ACCEL_NONE" THEN Fail(a, "assert_single_entry")
    ELSE IF inf.single_stops = Byte THEN Ret(a, <<>>)
    ELSE
        LET outs == Cardinality(inf.single_stops)
            offset == inf.single_offset
        IN  IF ~(outs # 0 /\ outs < 256) THEN Fail(a, "assert_single_outs")
            ELSE IF outs = 1 THEN
                Ret([a EXCEPT !.accel_type = "ACCEL_VERM",
                              !.offset = StoreOffset(offset),
                              !.c1 = find_first(inf.single_stops)],
                    <<"ACCEL_VERM">>)
            ELSE IF outs = 2 /\ isCaselessChar(inf.single_stops) THEN
                Ret([a EXCEPT !.accel_type = "ACCEL_VERM_NOCASE",
                              !.offset = StoreOffset(offset),
                              !.c1 = BitAnd(find_first(inf.single_stops),
                                            CASE_CLEAR)],
                    <<"ACCEL_VERM_NOCASE">>)
            ELSE IF SHUFTI_FAIL # shuftiRes THEN
                Ret([a EXCEPT !.accel_type = "ACCEL_SHUFTI",
                              !.offset = StoreOffset(offset),
                              !.masks = "shufti"],
                    <<"ACCEL_SHUFTI">>)
            ELSE IF outs < ACCEL_MAX_STOP_CHAR THEN
                Ret([a EXCEPT !.accel_type = "ACCEL_TRUFFLE",
                              !.offset = StoreOffset(offset),
                              !.masks = "truffle"],
                    <<"ACCEL_TRUFFLE">>)
            ELSE Ret(a, <<>>)

buildAccelSingle(inf, a, shuftiRes) ==
    IF a.accel_type # "ACCEL_NONE" THEN Fail(a, "assert_single_entry")
    ELSE IF inf.single_stops = Byte THEN Ret(a, <<>>)
    ELSE
        LET outs == Cardinality(inf.single_stops)
            offset == inf.single_offset
        IN  IF ~(outs # 0 /\ outs < 256) THEN Fail(a, "assert_single_outs")
            ELSE IF outs = 1 THEN
                Ret([a EXCEPT !.accel_type = "ACCEL_VERM",
                              !.offset = StoreOffset(offset),
                              !.c1 = find_first(inf.single_stops)],
                    <<"ACCEL_VERM">>)
            ELSE IF outs = 2 /\ isCaselessChar(inf.single_stops) THEN
                Ret([a EXCEPT !.accel_type = "ACCEL_VERM_NOCASE",
                              !.offset = StoreOffset(offset),
                              !.c1 = BitAnd(find_first(inf.single_stops),
                                            CASE_CLEAR)],
                    <<"ACCEL_VERM_NOCASE">>)
            ELSE IF SHUFTI_FAIL # shuftiRes THEN
                Ret([a EXCEPT !.accel_type = "ACCEL_SHUFTI",
                              !.offset = StoreOffset(offset),
                              !.masks = "shufti"],
                    <<"ACCEL_SHUFTI">>)
            ELSE IF outs <= ACCEL_MAX_STOP_CHAR THEN
                Ret([a EXCEPT !.accel_type = "ACCEL_TRUFFLE",
                              !.offset = StoreOffset(offset),
                              !.masks = "truffle"],
                    <<"ACCEL_TRUFFLE">>)
            ELSE Ret(a, <<>>)

\* whether buildAccelSingle gets as far as calling shuftiBuildMasks
reachesShufti(inf, a) ==
    /\ a.accel_type = "ACCEL_NONE"
    /\ inf.single_stops # Byte
    /\ Cardinality(inf.single_stops) \in 2..255
    /\ ~isCaselessChar(inf.single_stops)

\* isCaselessDouble comparing the first byte of each pair only
isCaselessDouble_firstOnly(stop) ==
    IF Cardinality(stop) # 4 THEN FALSE
    ELSE
        LET a == BitAnd(begin(stop)[1], CASE_CLEAR)
            b == BitAnd(begin(stop)[2], CASE_CLEAR)
        IN  ~ \E it \in stop :
                BitAnd(it[1], CASE_CLEAR) # a

isCaselessDouble(stop) ==
    IF Cardinality(stop) # 4 THEN FALSE
    ELSE
        LET a == BitAnd(begin(stop)[1], CASE_CLEAR)
            b == BitAnd(begin(stop)[2], CASE_CLEAR)
        IN  ~ \E it \in stop :
                \/ BitAnd(it[1], CASE_CLEAR) # a
                \/ BitAnd(it[2], CASE_CLEAR) # b

\* buildAccelDouble verifying double_offset only after the outs2 == 0 return
buildAccelDouble_lateVerify(inf, a) ==
    LET outs1 == Cardinality(inf.double_stop1)
        outs2 == Cardinality(inf.double_stop2)
        offset == verify_u8(inf.double_offset)
    IN  IF a.accel_type # "ACCEL_NONE" THEN Fail(a, "assert_double_entry")
        ELSE IF outs2 = 0 THEN Ret(a, <<>>)
        ELSE IF offset = FATAL THEN Fail(a, "verify_u8")
        ELSE IF outs1 = 0 /\ outs2 = 1 THEN
            Ret([a EXCEPT !.accel_type = "ACCEL_DVERM",
                          !.offset = StoreOffset(offset),
                          !.c1 = begin(inf.double_stop2)[1],
                          !.c2 = begin(inf.double_stop2)[2]],
                <<"ACCEL_DVERM">>)
        ELSE IF outs1 = 0 /\ isCaselessDouble(inf.double_stop2) THEN
            Ret([a EXCEPT !.accel_type = "ACCEL_DVERM_NOCASE",
                          !.offset = StoreOffset(offset),
                          !.c1 = BitAnd(begin(inf.double_stop2)[1], CASE_CLEAR),
                          !.c2 = BitAnd(begin(inf.double_stop2)[2], CASE_CLEAR)],
                <<"ACCEL_DVERM_NOCASE">>)
        ELSE IF outs1 + outs2 <= 8 /\ outs1 < outs2 /\ outs1 <= 2 THEN
            Ret([a EXCEPT !.accel_type = "ACCEL_DSHUFTI",
                          !.offset = StoreOffset(offset),
                          !.masks = "dshufti"],
                <<"ACCEL_DSHUFTI">>)
        ELSE Ret([a EXCEPT !.accel_type = "ACCEL_NONE"], <<"ACCEL_NONE">>)

\* buildAccelDouble with outs1 + outs2 < 8
buildAccelDouble_strictSum(inf, a) ==
    LET outs1 == Cardinality(inf.double_stop1)
        outs2 == Cardinality(inf.double_stop2)
        offset == verify_u8(inf.double_offset)
    IN  IF offset = FATAL THEN Fail(a, "verify_u8")
        ELSE IF a.accel_type # "ACCEL_NONE" THEN Fail(a, "assert_double_entry")
        ELSE IF outs2 = 0 THEN Ret(a, <<>>)
        ELSE IF outs1 = 0 /\ outs2 = 1 THEN
            Ret([a EXCEPT !.accel_type = "ACCEL_DVERM",
                          !.offset = StoreOffset(offset),
                          !.c1 = begin(inf.double_stop2)[1],
                          !.c2 = begin(inf.double_stop2)[2]],
                <<"ACCEL_DVERM">>)
        ELSE IF outs1 = 0 /\ isCaselessDouble(inf.double_stop2) THEN
            Ret([a EXCEPT !.accel_type = "ACCEL_DVERM_NOCASE",
                          !.offset = StoreOffset(offset),
                          !.c1 = BitAnd(begin(inf.double_stop2)[1], CASE_CLEAR),
                          !.c2 = BitAnd(begin(inf.double_stop2)[2], CASE_CLEAR)],
                <<"ACCEL_DVERM_NOCASE">>)
        ELSE IF outs1 + outs2 < 8 /\ outs1 < outs2 /\ outs1 <= 2 THEN
            Ret([a EXCEPT !.accel_type = "ACCEL_DSHUFTI",
                          !.offset = StoreOffset(offset),
                          !.masks = "dshufti"],
                <<"ACCEL_DSHUFTI">>)
        ELSE Ret([a EXCEPT !.accel_type = "ACCEL_NONE"], <<"ACCEL_NONE">>)

\* buildAccelDouble without outs1 == 0 in the caseless test
buildAccelDouble_caselessAnyOuts1(inf, a) ==
    LET outs1 == Cardinality(inf.double_stop1)
        outs2 == Cardinality(inf.double_stop2)
        offset == verify_u8(inf.double_offset)
    IN  IF offset = FATAL THEN Fail(a, "verify_u8")
        ELSE IF a.accel_type # "ACCEL_NONE" THEN Fail(a, "assert_double_entry")
        ELSE IF outs2 = 0 THEN Ret(a, <<>>)
        ELSE IF outs1 = 0 /\ outs2 = 1 THEN
            Ret([a EXCEPT !.accel_type = "ACCEL_DVERM",
                          !.offset = StoreOffset(offset),
                          !.c1 = begin(inf.double_stop2)[1],
                          !.c2 = begin(inf.double_stop2)[2]],
                <<"ACCEL_DVERM">>)
        ELSE IF isCaselessDouble(inf.double_stop2) THEN
            Ret([a EXCEPT !.accel_type = "ACCEL_DVERM_NOCASE",
                          !.offset = StoreOffset(offset),
                          !.c1 = BitAnd(begin(inf.double_stop2)[1], CASE_CLEAR),
                          !.c2 = BitAnd(begin(inf.double_stop2)[2], CASE_CLEAR)],
                <<"ACCEL_DVERM_NOCASE">>)
        ELSE IF outs1 + outs2 <= 8 /\ outs1 < outs2 /\ outs1 <= 2 THEN
            Ret([a EXCEPT !.accel_type = "ACCEL_DSHUFTI",
                          !.offset = StoreOffset(offset),
                          !.masks = "dshufti"],
                <<"ACCEL_DSHUFTI">>)
        ELSE Ret([a EXCEPT !.accel_type = "ACCEL_NONE"], <<"ACCEL_NONE">>)

\* buildAccelDouble without the return that ends the outs2 == 1 case: it
\* falls through to the table case and sets accel_type a second time
buildAccelDouble_noReturn(inf, a) ==
    LET outs1 == Cardinality(inf.double_stop1)
        outs2 == Cardinality(inf.double_stop2)
        offset == verify_u8(inf.double_offset)
    IN  IF offset = FATAL THEN Fail(a, "verify_u8")
        ELSE IF a.accel_type # "ACCEL_NONE" THEN Fail(a, "assert_double_entry")
        ELSE IF outs2 = 0 THEN Ret(a, <<>>)
        ELSE IF outs1 = 0 /\ outs2 = 1 THEN
            Ret([a EXCEPT !.accel_type = "ACCEL_DSHUFTI",
                          !.offset = StoreOffset(offset),
                          !.c1 = begin(inf.double_stop2)[1],
                          !.c2 = begin(inf.double_stop2)[2],
                          !.masks = "dshufti"],
                <<"ACCEL_DVERM", "ACCEL_DSHUFTI">>)
        ELSE IF outs1 = 0 /\ isCaselessDouble(inf.double_stop2) THEN
            Ret([a EXCEPT !.accel_type = "ACCEL_DVERM_NOCASE",
                          !.offset = StoreOffset(offset),
                          !.c1 = BitAnd(begin(inf.double_stop2)[1], CASE_CLEAR),
                          !.c2 = BitAnd(begin(inf.double_stop2)[2], CASE_CLEAR)],
                <<"ACCEL_DVERM_NOCASE">>)
        ELSE IF outs1 + outs2 <= 8 /\ outs1 < outs2 /\ outs1 <= 2 THEN
            Ret([a EXCEPT !.accel_type = "ACCEL_DSHUFTI",
                          !.offset = StoreOffset(offset),
                          !.masks = "dshufti"],
                <<"ACCEL_DSHUFTI">>)
        ELSE Ret([a EXCEPT !.accel_type = "ACCEL_NONE"], <<"ACCEL_NONE">>)

buildAccelDouble(inf, a) ==
    LET outs1 == Cardinality(inf.double_stop1)
        outs2 == Cardinality(inf.double_stop2)
        offset == verify_u8(inf.double_offset)
    IN  IF offset = FATAL THEN Fail(a, "verify_u8")
        ELSE IF a.accel_type # "ACCEL_NONE" THEN Fail(a, "assert_double_entry")
        ELSE IF outs2 = 0 THEN Ret(a, <<>>)
        ELSE IF outs1 = 0 /\ outs2 = 1 THEN
            Ret([a EXCEPT !.accel_type = "ACCEL_DVERM",
                          !.offset = StoreOffset(offset),
                          !.c1 = begin(inf.double_stop2)[1],
                          !.c2 = begin(inf.double_stop2)[2]],
                <<"ACCEL_DVERM">>)
        ELSE IF outs1 = 0 /\ isCaselessDouble(inf.double_stop2) THEN
            Ret([a EXCEPT !.accel_type = "ACCEL_DVERM_NOCASE",
                          !.offset = StoreOffset(offset),
                          !.c1 = BitAnd(begin(inf.double_stop2)[1], CASE_CLEAR),
                          !.c2 = BitAnd(begin(inf.double_stop2)[2], CASE_CLEAR)],
                <<"ACCEL_DVERM_NOCASE">>)
        ELSE IF outs1 + outs2 <= 8 /\ outs1 < outs2 /\ outs1 <= 2 THEN
            Ret([a EXCEPT !.accel_type = "ACCEL_DSHUFTI",
                          !.offset = StoreOffset(offset),
                          !.masks = "dshufti"],
                <<"ACCEL_DSHUFTI">>)
        ELSE Ret([a EXCEPT !.accel_type = "ACCEL_NONE"], <<"ACCEL_NONE">>)

(* ------------------------------ inputs --------------------------------- *)

\* the byte sets sampled as single_stops: every singleton, every pair that
\* differs in the case bit only (letters or not), two unrelated bytes, and
\* the sets {0..n-1} for sizes around each threshold of the selector
PrefixSizes == {0, 2, 3, 50, ACCEL_MAX_STOP_CHAR - 1, ACCEL_MAX_STOP_CHAR,
                ACCEL_MAX_STOP_CHAR + 1, 255, 256}

StopFamily ==
    {{b} : b \in Byte}
        \cup {{b, b + 32} : b \in {x \in Byte : BitAnd(x, 32) = 0}}
        \cup {{65, 66}, {48, 80}}
        \cup {0 .. (n - 1) : n \in PrefixSizes}

SmallStopFamily == {{}, {97}, {65, 97}, {0, 1, 2}, Byte}

SingleOffsets == {0, 3, MaxOffset}
DoubleOffsets == {3, 5, 255, MaxOffset}

FirstFamily == {1 .. n : n \in 0..MaxOuts1}

Square(x, y) == {x, x + 32} \X {y, y + 32}

PairFamily ==
    {{<<i, 255 - i>> : i \in 1..n} : n \in 0..MaxOuts2}
        \cup {{<<65, 66>>}, {<<97, 98>>}, {<<0, 255>>}}
        \cup {Square(65, 66), Square(0, 16), Square(90, 0)}
        \cup {(Square(65, 66) \ {<<97, 98>>}) \cup {<<97, 99>>},
              Square(65, 66) \ {<<97, 98>>},
              Square(65, 66) \cup {<<1, 2>>}}

PairUniverse == {65, 97, 0, 32} \X {66, 98, 67}

SubsetFamily ==
    {s \in SUBSET PairUniverse : Cardinality(s) \in 3..MaxSubset}

AccelInfo(ss, so, d1, d2, do) ==
    [single_stops |-> ss, single_offset |-> so,
     double_stop1 |-> d1, double_stop2 |-> d2, double_offset |-> do]

NarrowDouble == {<<{}, {}>>, <<{}, {<<65, 66>>}>>,
                 <<{1, 2, 3}, {<<1, 254>>, <<2, 253>>}>>}

\* the sampled inputs: every single_stops of StopFamily against a few double
\* stop sets, a few single_stops against every double stop set, and the
\* subsets of PairUniverse as double_stop2
IsInput(i) ==
    \/ \E ss \in StopFamily, so \in SingleOffsets, do \in DoubleOffsets,
          d \in NarrowDouble :
            i = AccelInfo(ss, so, d[1], d[2], do)
    \/ \E ss \in SmallStopFamily, so \in SingleOffsets, do \in DoubleOffsets,
          d1 \in FirstFamily, d2 \in PairFamily :
            i = AccelInfo(ss, so, d1, d2, do)
    \/ \E d1 \in {{}, {1}}, d2 \in SubsetFamily :
            i = AccelInfo({97}, 0, d1, d2, 5)

(* --------------------------- the state machine ------------------------- *)

Init ==
    /\ IsInput(info)
    /\ aux = [accel_type |-> "ACCEL_NONE", offset |-> 0, c1 |-> 0, c2 |-> 0,
              masks |-> "none"]
    /\ pc = "start"
    /\ ret = "unset"
    /\ abort = ""
    /\ trace = <<>>
    /\ calls = <<>>
    /\ shufti = "not_called"

\* the red tape branch storing double_offset
PickRedTape_doubleOffset ==
    /\ pc = "start"
    /\ info.single_stops = {}
    /\ IF aux.accel_type # "ACCEL_NONE"
       THEN /\ abort' = "assert_aux_entry"
            /\ pc' = "aborted"
            /\ UNCHANGED <<aux, trace>>
       ELSE /\ aux' = [aux EXCEPT !.accel_type = "ACCEL_RED_TAPE",
                                  !.offset = StoreOffset(info.double_offset)]
            /\ trace' = Append(trace, "ACCEL_RED_TAPE")
            /\ pc' = "check_none"
            /\ UNCHANGED abort
    /\ UNCHANGED <<info, ret, calls, shufti>>

\* buildAccelAux, lines 173-177: the entry assertion and the red tape branch
PickRedTape ==
    /\ pc = "start"
    /\ info.single_stops = {}
    /\ IF aux.accel_type # "ACCEL_NONE"
       THEN /\ abort' = "assert_aux_entry"
            /\ pc' = "aborted"
            /\ UNCHANGED <<aux, trace>>
       ELSE /\ aux' = [aux EXCEPT !.accel_type = "ACCEL_RED_TAPE",
                                  !.offset = StoreOffset(info.single_offset)]
            /\ trace' = Append(trace, "ACCEL_RED_TAPE")
            /\ pc' = "check_none"
            /\ UNCHANGED abort
    /\ UNCHANGED <<info, ret, calls, shufti>>

\* buildAccelAux, lines 173-180: the entry assertion and the call of
\* buildAccelDouble
CallDouble ==
    /\ pc = "start"
    /\ info.single_stops # {}
    /\ IF aux.accel_type # "ACCEL_NONE"
       THEN /\ abort' = "assert_aux_entry"
            /\ pc' = "aborted"
            /\ UNCHANGED <<aux, trace, calls>>
       ELSE LET r == buildAccelDouble(info, aux)
            IN  /\ aux' = r.aux
                /\ abort' = r.abort
                /\ trace' = trace \o r.writes
                /\ calls' = Append(calls, [fn |-> "buildAccelDouble",
                                           entry |-> aux.accel_type])
                /\ pc' = IF r.abort # "" THEN "aborted" ELSE "check_none"
    /\ UNCHANGED <<info, ret, shufti>>

\* buildAccelSingle called whatever the descriptor holds
CallSingle_unguarded ==
    /\ pc = "check_none"
    /\ \E shuftiRes \in {SHUFTI_FAIL, 0} :
        LET r == buildAccelSingle(info, aux, shuftiRes)
        IN  /\ aux' = r.aux
            /\ abort' = r.abort
            /\ trace' = trace \o r.writes
            /\ shufti' = IF ~reachesShufti(info, aux) THEN "not_called"
                         ELSE IF shuftiRes = SHUFTI_FAIL THEN "fail"
                         ELSE "ok"
            /\ pc' = IF r.abort # "" THEN "aborted" ELSE "post"
    /\ calls' = Append(calls, [fn |-> "buildAccelSingle",
                               entry |-> aux.accel_type])
    /\ UNCHANGED <<info, ret>>

\* buildAccelAux, lines 181-183, descriptor still ACCEL_NONE
CallSingle ==
    /\ pc = "check_none"
    /\ aux.accel_type = "ACCEL_NONE"
    /\ \E shuftiRes \in {SHUFTI_FAIL, 0} :
        LET r == buildAccelSingle(info, aux, shuftiRes)
        IN  /\ aux' = r.aux
            /\ abort' = r.abort
            /\ trace' = trace \o r.writes
            /\ shufti' = IF ~reachesShufti(info, aux) THEN "not_called"
                         ELSE IF shuftiRes = SHUFTI_FAIL THEN "fail"
                         ELSE "ok"
            /\ pc' = IF r.abort # "" THEN "aborted" ELSE "post"
    /\ calls' = Append(calls, [fn |-> "buildAccelSingle",
                               entry |-> aux.accel_type])
    /\ UNCHANGED <<info, ret>>

\* buildAccelAux, line 181, descriptor already set
SkipSingle ==
    /\ pc = "check_none"
    /\ aux.accel_type # "ACCEL_NONE"
    /\ pc' = "post"
    /\ UNCHANGED <<info, aux, ret, abort, trace, calls, shufti>>

\* buildAccelAux, lines 185-188: the closing assertion and the return
Return ==
    /\ pc = "post"
    /\ IF \/ aux.accel_type = "ACCEL_NONE"
          \/ aux.offset = info.single_offset
          \/ aux.offset = info.double_offset
       THEN /\ ret' = (aux.accel_type # "ACCEL_NONE")
            /\ pc' = "done"
            /\ UNCHANGED abort
       ELSE /\ abort' = "assert_offset"
            /\ pc' = "aborted"
            /\ UNCHANGED ret
    /\ UNCHANGED <<info, aux, trace, calls, shufti>>

Next == PickRedTape \/ CallDouble \/ CallSingle \/ SkipSingle \/ Return

Spec == Init /\ [][Next]_vars

(* ------------------------ vocabulary of the claims --------------------- *)

Outs == Cardinality(info.single_stops)
Outs1 == Cardinality(info.double_stop1)
Outs2 == Cardinality(info.double_stop2)

DoubleVariants == {"ACCEL_DVERM", "ACCEL_DVERM_NOCASE", "ACCEL_DSHUFTI"}
Returned == pc = "done"
Entered(fn) == \E k \in 1..Len(calls) : calls[k].fn = fn

\* b with its case bit (0x20) flipped
Toggle(b) == IF (b \div 32) % 2 = 1 THEN b - 32 ELSE b + 32
IsLetter(b) == b \in 65..90 \/ b \in 97..122

\* stop is the four combinations of {x, Toggle(x)} and {y, Toggle(y)}
IsCaseSquare(stop) ==
    /\ Cardinality(stop) = 4
    /\ \E p \in stop : stop = {p[1], Toggle(p[1])} \X {p[2], Toggle(p[2])}

\* the same, x and y being letters
IsLetterSquare(stop) ==
    /\ IsCaseSquare(stop)
    /\ \A p \in stop : IsLetter(p[1]) /\ IsLetter(p[2])

\* one of the three double-byte patterns matches
DoublePattern ==
    \/ Outs1 = 0 /\ Outs2 = 1
    \/ Outs1 = 0 /\ IsCaseSquare(info.double_stop2)
    \/ Outs1 + Outs2 <= 8 /\ Outs1 < Outs2 /\ Outs1 <= 2

(* -------------------------------- C1 ----------------------------------- *)

\* C1: when buildAccelAux finishes, the descriptor is ACCEL_NONE or its offset
\* is single_offset or double_offset of the input; the closing assertion
\* never fails.
C1_OffsetPostcondition ==
    /\ abort # "assert_offset"
    /\ pc \in {"post", "done"} =>
        \/ aux.accel_type = "ACCEL_NONE"
        \/ aux.offset = info.single_offset
        \/ aux.offset = info.double_offset

C1_Witness ==
    /\ Returned
    /\ aux.accel_type = "ACCEL_TRUFFLE"
    /\ info.single_offset > 255
    /\ aux.offset = info.single_offset
    /\ aux.offset # info.double_offset

(* -------------------------------- C2 ----------------------------------- *)

\* C2: with single_stops empty the result is ACCEL_RED_TAPE with offset
\* single_offset and buildAccelAux returns true, whatever the double fields
\* are; neither selector is entered.
C2_RedTape ==
    info.single_stops = {} =>
        /\ pc # "aborted"
        /\ calls = <<>>
        /\ pc # "start" =>
            /\ aux.accel_type = "ACCEL_RED_TAPE"
            /\ aux.offset = info.single_offset
            /\ trace = <<"ACCEL_RED_TAPE">>
        /\ Returned => ret = TRUE

C2_Witness ==
    /\ Returned
    /\ info.single_stops = {}
    /\ Outs2 = 1 /\ Outs1 = 0
    /\ info.double_offset > 255
    /\ info.single_offset # info.double_offset
    /\ aux.accel_type = "ACCEL_RED_TAPE"
    /\ ret = TRUE

(* -------------------------------- C3 ----------------------------------- *)

\* C3 as stated: whenever double_stop2 is non-empty and a double-byte pattern
\* matches, the result of buildAccelAux is a double-byte variant.
C3_Original ==
    (Returned /\ Outs2 # 0 /\ DoublePattern) =>
        aux.accel_type \in DoubleVariants

\* C3 amended: the same for inputs whose single_stops is non-empty.
C3_DoublePriority ==
    (Returned /\ info.single_stops # {} /\ Outs2 # 0 /\ DoublePattern) =>
        /\ aux.accel_type \in DoubleVariants
        /\ ret = TRUE
        /\ ~Entered("buildAccelSingle")

C3_Witness ==
    /\ Returned
    /\ Outs = 1
    /\ Outs1 + Outs2 = 8 /\ Outs1 = 2
    /\ aux.accel_type = "ACCEL_DSHUFTI"

(* -------------------------------- C4 ----------------------------------- *)

\* C4 as stated: a single_stops of exactly one byte b always yields
\* ACCEL_VERM with byte b and offset single_offset.
C4_Original ==
    (Returned /\ Outs = 1) =>
        /\ aux.accel_type = "ACCEL_VERM"
        /\ info.single_stops = {aux.c1}
        /\ aux.offset = info.single_offset

\* C4 amended: the same for inputs on which the double-byte selector declines
\* (double_stop2 empty or no double-byte pattern matching).
C4_ExactPriority ==
    (Returned /\ Outs = 1 /\ ~(Outs2 # 0 /\ DoublePattern)) =>
        /\ aux.accel_type = "ACCEL_VERM"
        /\ info.single_stops = {aux.c1}
        /\ aux.offset = info.single_offset
        /\ shufti = "not_called"

C4_Witness ==
    /\ Returned
    /\ info.single_stops = {255}
    /\ Outs2 = 2 /\ Outs1 = 3
    /\ aux.accel_type = "ACCEL_VERM"
    /\ aux.c1 = 255

(* -------------------------------- C5 ----------------------------------- *)

\* C5 as stated: with double_offset > 255 buildAccelAux never returns a
\* descriptor, whatever the stop sets are.
C5_Original ==
    info.double_offset > 255 => (pc # "done" /\ ret = "unset")

\* C5 amended: with double_offset > 255 and single_stops non-empty,
\* buildAccelAux stops at the 8-bit verification of buildAccelDouble, before
\* anything is written to the descriptor, and returns nothing.
C5_FailFast ==
    (info.double_offset > 255 /\ info.single_stops # {}) =>
        /\ pc \in {"start", "aborted"}
        /\ ret = "unset"
        /\ aux.accel_type = "ACCEL_NONE"
        /\ trace = <<>>
        /\ pc = "aborted" => abort = "verify_u8"

C5_Witness ==
    /\ pc = "aborted"
    /\ abort = "verify_u8"
    /\ info.double_offset > 255
    /\ Outs2 = 0
    /\ Outs = 1

(* -------------------------------- C6 ----------------------------------- *)

\* S is the upper and the lower case of one letter
IsLetterPair(S) == \E L \in 65..90 : S = {L, L + 32}

\* C6: once buildAccelSingle has run (single_stops non-empty, the double-byte
\* selector having declined), the descriptor is the first applicable entry of:
\* all 256 bytes -> none; one byte -> ACCEL_VERM with it; the two cases of a
\* letter -> ACCEL_VERM_NOCASE with the upper case; table builder succeeded ->
\* ACCEL_SHUFTI; outs <= ACCEL_MAX_STOP_CHAR -> ACCEL_TRUFFLE; else none. Every
\* result other than none carries single_offset.
C6_SinglePolicy ==
    (pc \in {"post", "done"} /\ Entered("buildAccelSingle")) =>
        /\ info.single_stops # {}
        /\ IF Outs = 256 THEN
                aux.accel_type = "ACCEL_NONE" /\ shufti = "not_called"
           ELSE IF Outs = 1 THEN
                /\ aux.accel_type = "ACCEL_VERM"
                /\ info.single_stops = {aux.c1}
                /\ shufti = "not_called"
           ELSE IF Outs = 2 /\ IsLetterPair(info.single_stops) THEN
                /\ aux.accel_type = "ACCEL_VERM_NOCASE"
                /\ aux.c1 \in 65..90
                /\ info.single_stops = {aux.c1, aux.c1 + 32}
                /\ shufti = "not_called"
           ELSE IF shufti = "ok" THEN aux.accel_type = "ACCEL_SHUFTI"
           ELSE IF Outs <= ACCEL_MAX_STOP_CHAR THEN
                aux.accel_type = "ACCEL_TRUFFLE" /\ shufti = "fail"
           ELSE aux.accel_type = "ACCEL_NONE" /\ shufti = "fail"
        /\ aux.accel_type # "ACCEL_NONE" => aux.offset = info.single_offset
        /\ Returned => ret = (aux.accel_type # "ACCEL_NONE")

C6_Witness ==
    /\ Returned
    /\ Outs = ACCEL_MAX_STOP_CHAR
    /\ Outs2 = 2
    /\ shufti = "fail"
    /\ aux.accel_type = "ACCEL_TRUFFLE"
    /\ aux.offset = info.single_offset

(* -------------------------------- C7 ----------------------------------- *)

\* C7: with single_stops non-empty and double_offset <= 255, buildAccelDouble
\* returns, leaving the descriptor none when outs2 == 0; else ACCEL_DVERM with
\* the sole pair when outs1 == 0 and outs2 == 1; else ACCEL_DVERM_NOCASE with
\* both bytes case-cleared when outs1 == 0 and the pairs are the four case
\* combinations of one pair; else ACCEL_DSHUFTI when outs1 + outs2 <= 8,
\* outs1 < outs2 and outs1 <= 2; else none. Every result other than none
\* carries double_offset, and none is a double-byte variant when double_stop2
\* is empty.
C7_DoublePolicy ==
    /\ (info.single_stops # {} /\ info.double_offset <= 255) => pc # "aborted"
    /\ (aux.accel_type \in DoubleVariants) =>
        /\ Outs2 # 0
        /\ aux.offset = info.double_offset
    /\ (pc = "check_none" /\ Entered("buildAccelDouble")) =>
        /\ info.single_stops # {} /\ info.double_offset <= 255
        /\ IF Outs2 = 0 THEN
                aux.accel_type = "ACCEL_NONE" /\ trace = <<>>
           ELSE IF Outs1 = 0 /\ Outs2 = 1 THEN
                /\ aux.accel_type = "ACCEL_DVERM"
                /\ info.double_stop2 = {<<aux.c1, aux.c2>>}
           ELSE IF Outs1 = 0 /\ IsCaseSquare(info.double_stop2) THEN
                /\ aux.accel_type = "ACCEL_DVERM_NOCASE"
                /\ (aux.c1 \div 32) % 2 = 0 /\ (aux.c2 \div 32) % 2 = 0
                /\ <<aux.c1, aux.c2>> \in info.double_stop2
           ELSE IF Outs1 + Outs2 <= 8 /\ Outs1 < Outs2 /\ Outs1 <= 2 THEN
                aux.accel_type = "ACCEL_DSHUFTI"
           ELSE aux.accel_type = "ACCEL_NONE" /\ trace = <<"ACCEL_NONE">>

C7_Witness ==
    /\ pc = "check_none"
    /\ Entered("buildAccelDouble")
    /\ info.double_stop2 = Square(65, 66)
    /\ aux.accel_type = "ACCEL_DVERM_NOCASE"
    /\ aux.c1 = 65 /\ aux.c2 = 66
    /\ aux.offset = info.double_offset

(* -------------------------------- C8 ----------------------------------- *)

NonNoneWrites(t) == {k \in 1..Len(t) : t[k] # "ACCEL_NONE"}

\* C9: within one invocation accel_type is set to a variant other than none
\* at most once; once it is not none no step changes it, and a step that
\* declines leaves it none.
C9_SetAtMostOnce ==
    [][/\ aux.accel_type # "ACCEL_NONE" => aux'.accel_type = aux.accel_type
       /\ Cardinality(NonNoneWrites(trace')) <= 1
       /\ (aux'.accel_type = "ACCEL_NONE") = (NonNoneWrites(trace') = {})]_vars

C9_Witness ==
    /\ pc = "post"
    /\ Len(calls) = 2
    /\ trace = <<"ACCEL_NONE", "ACCEL_VERM">>
    /\ aux.accel_type = "ACCEL_VERM"

(* -------------------------------- C10 ---------------------------------- *)

\* C10: buildAccelDouble and buildAccelSingle are entered only while the
\* descriptor is none, buildAccelSingle only with single_stops non-empty, so
\* that no entry assertion fails and outs is in 1..255 after the all() test.
C10_EntryAssertions ==
    /\ abort \notin {"assert_double_entry", "assert_single_entry",
                     "assert_single_outs"}
    /\ \A k \in 1..Len(calls) : calls[k].entry = "ACCEL_NONE"
    /\ Entered("buildAccelSingle") =>
        /\ info.single_stops # {}
        /\ info.single_stops # Byte => Outs \in 1..255

C10_Witness ==
    /\ pc = "post"
    /\ Len(calls) = 2
    /\ calls[2].fn = "buildAccelSingle"
    /\ Outs = 255
    /\ aux.accel_type = "ACCEL_SHUFTI"

====
